---- MODULE Spec2Model ----
(***************************************************************************)
(* Model of the e-commerce backend: the Cart and Product document models   *)
(* (src/Cart.js, src/Product.js), the User model and the admin middleware  *)
(* (src/admin.js), the auth middleware (src/auth.js), the auth routes      *)
(* (src/authRoutes.js) and the dashboard routes (src/unnamed/part_000).    *)
(*                                                                         *)
(* Storage is a document database reached through Mongoose.  What the      *)
(* model takes from the library:                                           *)
(*  - save() validates the document against the schema first, then runs    *)
(*    the schema's pre('save') hooks, then writes;                          *)
(*  - an insert that breaks a unique index is rejected (E11000);           *)
(*  - populate(path) replaces the referenced id by the referenced          *)
(*    document in the in-memory copy only; toString() of a populated       *)
(*    document is its inspection string, never the string of its id;       *)
(*  - save() of a loaded document sends an update of the modified paths   *)
(*    only: a push on an array as $push, an assignment of element fields   *)
(*    as $set of that position, an assignment or splice of the array as    *)
(*    $set of the whole array; assigning a path a value equal to the one   *)
(*    it has is no modification;                                           *)
(*  - the update carries the version the document was loaded with when it  *)
(*    addresses array positions or replaces an array, and is rejected      *)
(*    (VersionError) when the stored version has been incremented since;   *)
(*    the stored version is incremented by updates that append to or       *)
(*    replace an array;                                                    *)
(*  - the signing secret JWT_SECRET is configured.                         *)
(* Numbers are integers; Product.rating is kept in tenths.                 *)
(***************************************************************************)
EXTENDS Integers, Sequences, FiniteSets, TLC

VARIABLES
    carts,      \* the stored Cart collection: a sequence, _id = index
    cartReq,    \* per request: where it is and the cart document it holds
    cartErr,    \* the error thrown by the last cart call, "" when none
    product,    \* the stored document of a product
    prodReq,    \* per request: where it is and the product document it holds
    prodLast,   \* the last product call: its arguments, its error ("" when
                \* none) and the number of reviews its filter removed
    users,      \* the stored User collection: a set of documents
    tokens,     \* the tokens signed with the secret so far
    now,        \* the current time, in days
    authReq,    \* per request of a route that awaits a save: its local state
    resp        \* the last response sent

cartVars == <<carts, cartReq, cartErr>>
prodVars == <<product, prodReq, prodLast>>
authVars == <<users, tokens, now, authReq, resp>>

vars == <<carts, cartReq, cartErr, product, prodReq, prodLast,
          users, tokens, now, authReq, resp>>

-----------------------------------------------------------------------------
(* Bounds of the cart model *)

\* ids of the users that own carts
CartUsers == {1, 2}
\* the user whose requests run one after the other
SeqUsers == {1}
\* ids of the catalogue's products
ProductIds == {1, 2}
\* unit prices a caller passes to addItem
Prices == {4, 10}
\* largest item quantity followed
MaxQty == 3
\* largest number of embedded cart items followed
MaxItems == 2
\* the quantity argument a caller passes to addItem: <<>> when it is omitted
QtyArgs == {<<>>, <<-1>>, <<2>>, <<3>>}
\* quantities a caller passes to updateItemQuantity
QtyUpdates == {-1, 0, 1, 2}
\* discount amounts a caller passes to applyCoupon
DiscountArgs == {-5, 40}
\* coupon codes a caller passes to applyCoupon
CouponCodes == {"SAVE"}
\* fields a caller assigns on the loaded document before calling a method
CallerSets == {"taxShipping", "derived", "negativeTotal"}
\* the requests that run one after the other
SeqReqs == {1}
\* the requests that race on one cart with addItem
AddRaceReqs == {1, 2}
\* the quantity arguments of the racing addItem calls
AddRaceQtyArgs == {<<>>, <<2>>}
\* the price arguments of the racing addItem calls
AddRacePrices == {4}
\* the requests that race on cart creation
RaceReqs == {1, 2, 3}
CartReqs == SeqReqs \cup RaceReqs

-----------------------------------------------------------------------------
(* Cart documents *)

NoCart == [_id |-> -1]

RECURSIVE sumTotalPrice(_)
\* the subtotal accumulated by the hook's forEach: the items' line totals
sumTotalPrice(items) ==
    IF items = <<>> THEN 0 ELSE Head(items).totalPrice + sumTotalPrice(Tail(items))

RECURSIVE sumQuantity(_)
\* the totalItems accumulated by the hook's forEach: the items' quantities
sumQuantity(items) ==
    IF items = <<>> THEN 0 ELSE Head(items).quantity + sumQuantity(Tail(items))

\* item.productId.toString(): the id's string, or the inspection string of
\* the populated product document
itemProductIdToString(item) ==
    IF item.populated THEN <<"document", item.productId>>
    ELSE <<"id", item.productId>>

\* productId.toString() of the caller's argument
productIdToString(productId) == <<"id", productId>>

\* this.items.findIndex(item => item.productId.toString() === productId.toString()),
\* 1-based, 0 when there is none
findItemIndex(items, productId) ==
    LET hits == {i \in 1..Len(items) :
                    itemProductIdToString(items[i]) = productIdToString(productId)}
    IN IF hits = {} THEN 0 ELSE CHOOSE i \in hits : \A j \in hits : i <= j

\* schema validation of a cart: the min constraints of cartItemSchema and
\* cartSchema
cartValidate(doc) ==
    /\ \A i \in 1..Len(doc.items) :
          /\ doc.items[i].quantity >= 1
          /\ doc.items[i].price >= 0
          /\ doc.items[i].totalPrice >= 0
    /\ doc.subtotal >= 0
    /\ doc.tax >= 0
    /\ doc.shipping >= 0
    /\ doc.discount >= 0
    /\ doc.total >= 0
    /\ doc.totalItems >= 0

\* total as the hook leaves it when the floor at zero is forgotten
cartTotalUnfloored(subtotal, tax, shipping, discount) ==
    subtotal + tax + shipping - discount

\* this.total = subtotal + tax + shipping - discount, floored at zero
cartTotal(subtotal, tax, shipping, discount) ==
    LET t == subtotal + tax + shipping - discount
    IN IF t < 0 THEN 0 ELSE t

\* cartSchema.pre('save'): recompute line totals, subtotal, totalItems, total
cartPreSave(doc) ==
    LET items == [i \in 1..Len(doc.items) |->
                    [doc.items[i] EXCEPT
                        !.totalPrice = doc.items[i].price * doc.items[i].quantity]]
        subtotal == sumTotalPrice(items)
    IN [doc EXCEPT
            !.items = items,
            !.subtotal = subtotal,
            !.totalItems = sumQuantity(items),
            !.total = cartTotal(subtotal, doc.tax, doc.shipping, doc.discount)]

\* what is written for a document: references are stored as ids
depopulate(doc) ==
    [doc EXCEPT !.items =
        [i \in 1..Len(doc.items) |-> [doc.items[i] EXCEPT !.populated = FALSE]]]

\* populate('items.productId', ...): every item's reference is replaced by
\* the product document
populate(doc) ==
    [doc EXCEPT !.items =
        [i \in 1..Len(doc.items) |-> [doc.items[i] EXCEPT !.populated = TRUE]]]

\* new this({ userId, items: [] }) with the schema's defaults
newCart(userId) ==
    [_id |-> 0, userId |-> userId, items |-> <<>>, subtotal |-> 0, tax |-> 0,
     shipping |-> 0, discount |-> 0, total |-> 0, totalItems |-> 0,
     couponCode |-> "", isActive |-> TRUE]

\* the insert check of a collection whose userId index is not unique
cartUserIdNotIndexed(userId) == TRUE

\* the unique index on userId admits the insert
cartUserIdUnique(userId) ==
    \A i \in 1..Len(carts) : carts[i].userId # userId

\* this.findOne({ userId, isActive: true }): the first match, NoCart when none
findOneCart(userId) ==
    LET hits == {i \in 1..Len(carts) :
                    carts[i].userId = userId /\ carts[i].isActive}
    IN IF hits = {} THEN NoCart
       ELSE carts[CHOOSE i \in hits : \A j \in hits : i <= j]

\* how a method changed the items path of its document: "push" appended an
\* item (sent as $push), "setAt" assigned fields of the item at index (sent
\* as $set of that position), "setAll" assigned or spliced the array (sent
\* as $set of the whole array), "none" left it alone
itemsOp(kind, index) == [kind |-> kind, index |-> index]

\* save() of a loaded document sends the version it loaded when it addresses
\* array positions or replaces the array
versionChecked(op) == op.kind \in {"setAt", "setAll"}

\* save() increments the stored version when it appends to or replaces the
\* array
versionIncremented(op) == op.kind \in {"push", "setAll"}

\* the stored items after the update save() sends for the items path
storedItemsAfter(stored, base, doc, op) ==
    CASE op.kind = "push" ->
            Append(stored.items,
                   [doc.items[Len(doc.items)] EXCEPT !.populated = FALSE])
      [] op.kind = "setAt" ->
            [stored.items EXCEPT ![op.index] =
                [@ EXCEPT
                    !.quantity = IF doc.items[op.index].quantity
                                        # base.items[op.index].quantity
                                 THEN doc.items[op.index].quantity ELSE @,
                    !.price = IF doc.items[op.index].price
                                        # base.items[op.index].price
                              THEN doc.items[op.index].price ELSE @,
                    !.totalPrice = IF doc.items[op.index].totalPrice
                                        # base.items[op.index].totalPrice
                                   THEN doc.items[op.index].totalPrice ELSE @]]
      [] op.kind = "setAll" -> depopulate(doc).items
      [] OTHER -> stored.items

\* the stored document after the update save() sends: the modified paths
\* only, each path that differs from the document as loaded or last saved
storedAfterUpdate(stored, base, doc, op) ==
    [stored EXCEPT
        !.items = storedItemsAfter(stored, base, doc, op),
        !.subtotal = IF doc.subtotal # base.subtotal THEN doc.subtotal ELSE @,
        !.totalItems = IF doc.totalItems # base.totalItems THEN doc.totalItems ELSE @,
        !.total = IF doc.total # base.total THEN doc.total ELSE @,
        !.tax = IF doc.tax # base.tax THEN doc.tax ELSE @,
        !.shipping = IF doc.shipping # base.shipping THEN doc.shipping ELSE @,
        !.discount = IF doc.discount # base.discount THEN doc.discount ELSE @,
        !.couponCode = IF doc.couponCode # base.couponCode THEN doc.couponCode ELSE @]

\* the stored collection after a successful save of doc (validated, hooks
\* run): an insert of a new document, an update of a loaded one
cartsAfterSave(base, doc, op) ==
    IF doc._id = 0
    THEN Append(carts, [depopulate(doc) EXCEPT !._id = Len(carts) + 1])
    ELSE [carts EXCEPT ![doc._id] = storedAfterUpdate(carts[doc._id], base, doc, op)]

\* the error save() of doc throws, "" when it succeeds; stale says the
\* stored version was incremented since the document was loaded
saveError(doc, op, stale) ==
    IF ~cartValidate(doc) THEN "ValidationError"
    ELSE IF doc._id = 0 /\ ~cartUserIdUnique(doc.userId) THEN "E11000 duplicate key"
    ELSE IF doc._id # 0 /\ versionChecked(op) /\ stale THEN "VersionError"
    ELSE ""

\* the in-memory document after a successful save
savedDoc(doc) ==
    LET d == cartPreSave(doc)
    IN IF d._id = 0 THEN [d EXCEPT !._id = Len(carts) + 1] ELSE d

\* a request that holds no document
idleReq == [pc |-> "idle", userId |-> 0, doc |-> NoCart, base |-> NoCart,
            stale |-> FALSE]

\* the requests after request r saved doc: r holds the saved document; the
\* other holders of that cart are stale once the version was incremented
reqsAfterSave(r, doc, op) ==
    [q \in CartReqs |->
        IF q = r THEN [cartReq[r] EXCEPT !.doc = savedDoc(doc), !.base = savedDoc(doc)]
        ELSE IF cartReq[q].doc._id = doc._id /\ versionIncremented(op)
        THEN [cartReq[q] EXCEPT !.stale = TRUE]
        ELSE cartReq[q]]

\* return this.save() called by request r on the document doc it has mutated,
\* its items path changed as op says; a rejected save throws out of the
\* method and ends the request
Save(r, doc, op) ==
    LET err == saveError(doc, op, cartReq[r].stale)
    IN /\ cartErr' = err
       /\ IF err = ""
          THEN /\ carts' = cartsAfterSave(cartReq[r].base, cartPreSave(doc), op)
               /\ cartReq' = reqsAfterSave(r, doc, op)
          ELSE /\ carts' = carts
               /\ cartReq' = [cartReq EXCEPT ![r] = idleReq]

-----------------------------------------------------------------------------
(* Cart operations *)

CartInit ==
    /\ carts = <<>>
    /\ cartReq = [r \in CartReqs |-> idleReq]
    /\ cartErr = ""

\* getOrCreateCart, up to the await of findOne(...).populate(...): a found
\* cart is returned populated
getOrCreateCartFind(r, userId) ==
    /\ UNCHANGED <<prodVars, authVars>>
    /\ cartReq[r].pc = "idle"
    /\ LET cart == findOneCart(userId)
       IN cartReq' = [cartReq EXCEPT ![r] =
            IF cart = NoCart
            THEN [pc |-> "creating", userId |-> userId, doc |-> NoCart,
                  base |-> NoCart, stale |-> FALSE]
            ELSE [pc |-> "loaded", userId |-> userId, doc |-> populate(cart),
                  base |-> populate(cart), stale |-> FALSE]]
    /\ cartErr' = ""
    /\ UNCHANGED carts

\* getOrCreateCart after it found no cart: new this(...), await cart.save();
\* a rejected save throws out of getOrCreateCart
getOrCreateCartCreate(r) ==
    /\ UNCHANGED <<prodVars, authVars>>
    /\ cartReq[r].pc = "creating"
    /\ LET doc == newCart(cartReq[r].userId)
           err == saveError(doc, itemsOp("none", 0), FALSE)
       IN /\ cartErr' = err
          /\ IF err = ""
             THEN /\ carts' = cartsAfterSave(NoCart, cartPreSave(doc), itemsOp("none", 0))
                  /\ cartReq' = [cartReq EXCEPT ![r].pc = "loaded",
                                                ![r].doc = savedDoc(doc),
                                                ![r].base = savedDoc(doc)]
             ELSE /\ carts' = carts
                  /\ cartReq' = [cartReq EXCEPT ![r] = idleReq]

\* the request is over; its document is dropped
cartRequestEnd(r) ==
    /\ UNCHANGED <<prodVars, authVars>>
    /\ cartReq[r].pc = "loaded"
    /\ cartReq' = [cartReq EXCEPT ![r] = idleReq]
    /\ cartErr' = ""
    /\ UNCHANGED carts

\* quantity = 1 default parameter
qtyOrDefault(quantityArg) == IF quantityArg = <<>> THEN 1 ELSE quantityArg[1]

\* the items after addItem's branch on the existing item
addItemItems(items, productId, quantity, price) ==
    LET existingItemIndex == findItemIndex(items, productId)
    IN IF existingItemIndex >= 1
       THEN [items EXCEPT
                ![existingItemIndex].quantity = items[existingItemIndex].quantity + quantity,
                ![existingItemIndex].price = price]
       ELSE Append(items, [productId |-> productId, populated |-> FALSE,
                           quantity |-> quantity, price |-> price,
                           totalPrice |-> price * quantity])

\* cartSchema.methods.addItem
addItem(r, productId, quantityArg, price) ==
    /\ UNCHANGED <<prodVars, authVars>>
    /\ cartReq[r].pc = "loaded"
    /\ LET doc == cartReq[r].doc
           quantity == qtyOrDefault(quantityArg)
           items == addItemItems(doc.items, productId, quantity, price)
           existingItemIndex == findItemIndex(doc.items, productId)
       IN /\ Len(items) <= MaxItems
          /\ \A i \in 1..Len(items) : items[i].quantity <= MaxQty
          /\ Save(r, [doc EXCEPT !.items = items],
                  IF existingItemIndex >= 1 THEN itemsOp("setAt", existingItemIndex)
                  ELSE itemsOp("push", 0))

\* the items after updateItemQuantity's branch, given the index found (>= 1)
updateItemQuantityItems(items, itemIndex, quantity) ==
    IF quantity <= 0
    THEN [i \in 1..(Len(items) - 1) |->
            IF i < itemIndex THEN items[i] ELSE items[i + 1]]
    ELSE [items EXCEPT ![itemIndex].quantity = quantity]

\* cartSchema.methods.updateItemQuantity; the throw ends the request
updateItemQuantity(r, productId, quantity) ==
    /\ UNCHANGED <<prodVars, authVars>>
    /\ cartReq[r].pc = "loaded"
    /\ LET doc == cartReq[r].doc
           itemIndex == findItemIndex(doc.items, productId)
       IN IF itemIndex >= 1
          THEN Save(r, [doc EXCEPT !.items =
                            updateItemQuantityItems(doc.items, itemIndex, quantity)],
                    IF quantity <= 0 THEN itemsOp("setAll", 0)
                    ELSE itemsOp("setAt", itemIndex))
          ELSE /\ cartErr' = "Item not found in cart"
               /\ cartReq' = [cartReq EXCEPT ![r] = idleReq]
               /\ carts' = carts

\* this.items.filter(item => item.productId.toString() !== productId.toString())
removeItemItems(items, productId) ==
    SelectSeq(items, LAMBDA item :
        itemProductIdToString(item) # productIdToString(productId))

\* cartSchema.methods.removeItem
removeItem(r, productId) ==
    /\ UNCHANGED <<prodVars, authVars>>
    /\ cartReq[r].pc = "loaded"
    /\ LET doc == cartReq[r].doc
           items == removeItemItems(doc.items, productId)
       IN Save(r, [doc EXCEPT !.items = items],
               IF items = doc.items THEN itemsOp("none", 0) ELSE itemsOp("setAll", 0))

\* cartSchema.methods.clearCart
clearCart(r) ==
    /\ UNCHANGED <<prodVars, authVars>>
    /\ cartReq[r].pc = "loaded"
    /\ Save(r, [cartReq[r].doc EXCEPT !.items = <<>>, !.couponCode = "",
                                      !.discount = 0],
            IF cartReq[r].doc.items = <<>> THEN itemsOp("none", 0)
            ELSE itemsOp("setAll", 0))

\* cartSchema.methods.applyCoupon
applyCoupon(r, couponCode, discountAmount) ==
    /\ UNCHANGED <<prodVars, authVars>>
    /\ cartReq[r].pc = "loaded"
    /\ Save(r, [cartReq[r].doc EXCEPT !.couponCode = couponCode,
                                      !.discount = discountAmount],
            itemsOp("none", 0))

\* cartSchema.methods.removeCoupon
removeCoupon(r) ==
    /\ UNCHANGED <<prodVars, authVars>>
    /\ cartReq[r].pc = "loaded"
    /\ Save(r, [cartReq[r].doc EXCEPT !.couponCode = "", !.discount = 0],
            itemsOp("none", 0))

\* the document after the caller assigned schema fields directly
callerSetDoc(doc, what) ==
    CASE what = "taxShipping" -> [doc EXCEPT !.tax = 2, !.shipping = 5]
      [] what = "derived" -> [doc EXCEPT !.subtotal = 99, !.total = 99,
                                         !.totalItems = 99]
      [] what = "negativeTotal" -> [doc EXCEPT !.total = -1]

\* the caller of the model assigns fields of the loaded document (no save)
callerSet(r, what) ==
    /\ UNCHANGED <<prodVars, authVars>>
    /\ cartReq[r].pc = "loaded"
    /\ cartReq[r].doc # callerSetDoc(cartReq[r].doc, what)
    /\ cartReq' = [cartReq EXCEPT ![r].doc = callerSetDoc(cartReq[r].doc, what)]
    /\ cartErr' = ""
    /\ UNCHANGED carts

-----------------------------------------------------------------------------
(* Bounds of the product model *)

\* ids of the users that review the product
ReviewUsers == {1, 2, 3, 4}
\* ratings a caller passes to addReview (the schema admits 1..5)
RatingArgs == {0, 1, 2, 6}
\* comments a caller passes to addReview: <<>> when it is omitted
CommentArgs == {<<>>, <<"good">>}
\* largest number of embedded reviews followed
MaxReviews == 4
\* fields a caller assigns on the loaded product before calling addReview
ProductCallerSets == {"derived", "ratingTooHigh"}
\* the requests that run one after the other
ProdSeqReqs == {1}
\* the requests that race on the product with addReview
ReviewRaceReqs == {1, 2}
\* the users whose reviews race
ReviewRaceUsers == {1, 2}
\* the ratings of the racing reviews
ReviewRaceRatings == {1, 4}
ProdReqs == ProdSeqReqs \cup ReviewRaceReqs

-----------------------------------------------------------------------------
(* Product documents; rating is in tenths *)

NoProduct == [_id |-> -1]

\* no product call
noCall == [op |-> "", req |-> 0, userId |-> 0, rating |-> 0, commentArg |-> <<>>,
           removed |-> 0, err |-> ""]

idleProdReq == [pc |-> "idle", doc |-> NoProduct, base |-> NoProduct,
                stale |-> FALSE]

RECURSIVE sumRating(_)
\* this.reviews.reduce((sum, review) => sum + review.rating, 0)
sumRating(reviews) ==
    IF reviews = <<>> THEN 0 ELSE Head(reviews).rating + sumRating(Tail(reviews))

\* the tenths kept when the mean is truncated instead of rounded
truncTenths(total, n) == (10 * total) \div n

\* Math.round((total / n) * 10): the nearest integer, halves upwards
roundTenths(total, n) == (20 * total + n) \div (2 * n)

\* productSchema.pre('save'): recompute rating and reviewCount
productPreSave(doc) ==
    IF Len(doc.reviews) > 0
    THEN [doc EXCEPT !.rating = roundTenths(sumRating(doc.reviews), Len(doc.reviews)),
                     !.reviewCount = Len(doc.reviews)]
    ELSE [doc EXCEPT !.rating = 0, !.reviewCount = 0]

\* schema validation of a product: review.rating in 1..5, rating in 0..5
productValidate(doc) ==
    /\ \A i \in 1..Len(doc.reviews) :
          doc.reviews[i].rating >= 1 /\ doc.reviews[i].rating <= 5
    /\ doc.rating >= 0
    /\ doc.rating <= 50

\* the stored product after the update save() sends: the modified paths
\* only; reviews as a $push of the appended review or as a $set of the
\* whole array
productAfterUpdate(stored, base, doc, op) ==
    [stored EXCEPT
        !.reviews = IF op.kind = "push"
                    THEN Append(stored.reviews, doc.reviews[Len(doc.reviews)])
                    ELSE doc.reviews,
        !.rating = IF doc.rating # base.rating THEN doc.rating ELSE @,
        !.reviewCount = IF doc.reviewCount # base.reviewCount THEN doc.reviewCount
                        ELSE @]

\* the error save() of the product throws, "" when it succeeds
productSaveError(doc, op, stale) ==
    IF ~productValidate(doc) THEN "ValidationError"
    ELSE IF versionChecked(op) /\ stale THEN "VersionError"
    ELSE ""

\* this.save() of a product by request r, its reviews path changed as op
\* says; a rejected save throws and ends the request
SaveProduct(r, doc, op, call) ==
    LET err == productSaveError(doc, op, prodReq[r].stale)
    IN IF err = ""
       THEN /\ product' = productAfterUpdate(product, prodReq[r].base,
                                             productPreSave(doc), op)
            /\ prodReq' = [q \in ProdReqs |->
                    IF q = r
                    THEN [prodReq[r] EXCEPT !.doc = productPreSave(doc),
                                            !.base = productPreSave(doc)]
                    ELSE IF prodReq[q].pc = "loaded" /\ versionIncremented(op)
                    THEN [prodReq[q] EXCEPT !.stale = TRUE]
                    ELSE prodReq[q]]
            /\ prodLast' = [call EXCEPT !.err = ""]
       ELSE /\ product' = product
            /\ prodReq' = [prodReq EXCEPT ![r] = idleProdReq]
            /\ prodLast' = [call EXCEPT !.err = err]

ProdInit ==
    /\ product = [_id |-> 1, reviews |-> <<>>, rating |-> 0, reviewCount |-> 0]
    /\ prodReq = [r \in ProdReqs |-> idleProdReq]
    /\ prodLast = noCall

\* a request loads the product document
productFind(r) ==
    /\ UNCHANGED <<cartVars, authVars>>
    /\ prodReq[r].pc = "idle"
    /\ prodReq' = [prodReq EXCEPT ![r] = [pc |-> "loaded", doc |-> product,
                                          base |-> product, stale |-> FALSE]]
    /\ prodLast' = noCall
    /\ UNCHANGED product

\* the request is over; its document is dropped
productRequestEnd(r) ==
    /\ UNCHANGED <<cartVars, authVars>>
    /\ prodReq[r].pc = "loaded"
    /\ prodReq' = [prodReq EXCEPT ![r] = idleProdReq]
    /\ prodLast' = noCall
    /\ UNCHANGED product

\* the document after the caller assigned the derived fields directly
productCallerSetDoc(doc, what) ==
    CASE what = "derived" -> [doc EXCEPT !.rating = 30, !.reviewCount = 7]
      [] what = "ratingTooHigh" -> [doc EXCEPT !.rating = 90]

\* the caller of the model assigns fields of the loaded document (no save)
productCallerSet(r, what) ==
    /\ UNCHANGED <<cartVars, authVars>>
    /\ prodReq[r].pc = "loaded"
    /\ prodReq[r].doc # productCallerSetDoc(prodReq[r].doc, what)
    /\ prodReq' = [prodReq EXCEPT ![r].doc = productCallerSetDoc(prodReq[r].doc, what)]
    /\ prodLast' = noCall
    /\ UNCHANGED product

\* addReview's filter when it drops nothing
keepAllReviews(reviews, userId) == reviews

\* this.reviews.filter(review => !review.user.equals(userId))
filterReviews(reviews, userId) ==
    SelectSeq(reviews, LAMBDA review : review.user # userId)

\* comment || ''
commentOrEmpty(commentArg) == IF commentArg = <<>> THEN "" ELSE commentArg[1]

\* productSchema.methods.addReview
addReview(r, userId, rating, commentArg) ==
    /\ UNCHANGED <<cartVars, authVars>>
    /\ prodReq[r].pc = "loaded"
    /\ LET doc == prodReq[r].doc
           kept == filterReviews(doc.reviews, userId)
           reviews == Append(kept, [user |-> userId, rating |-> rating,
                                    comment |-> commentOrEmpty(commentArg)])
       IN /\ Len(reviews) <= MaxReviews
          /\ SaveProduct(r, [doc EXCEPT !.reviews = reviews],
                IF kept = doc.reviews THEN itemsOp("push", 0) ELSE itemsOp("setAll", 0),
                [op |-> "addReview", req |-> r, userId |-> userId, rating |-> rating,
                 commentArg |-> commentArg, removed |-> Len(doc.reviews) - Len(kept),
                 err |-> ""])

-----------------------------------------------------------------------------
(* Bounds of the auth model *)

\* email strings of request bodies ("" when the field is missing)
Emails == {"", "a@x.com", "A@X.com", "b@x.com"}
\* passwords of register bodies ("" when the field is missing)
RegisterPasswords == {"", "abcde", "secret1"}
\* passwords of login bodies ("" when the field is missing)
LoginPasswords == {"", "secret1", "letmein"}
\* roles of register bodies ("" when the field is missing)
RoleArgs == {"", "admin", "root"}
\* external ids of google bodies ("" when the field is missing)
GoogleIds == {"", "g1"}
\* external ids of the google bodies that race on one account
LinkGoogleIds == {"", "g1", "g2"}
\* emails of the bodies that race on one account
LinkEmails == {"", "a@x.com", "A@X.com"}
\* largest number of stored users followed
MaxUsers == 2
\* time passes while now is before this day
MaxNow == 7
\* the days that pass at once where tokens of different ages are followed
TickDays == 4
\* expiresIn: '7d', in days
ExpiresInDays == 7
\* the requests that run one after the other
AuthSeqReqs == {1}
\* the requests that race on user creation
AuthRaceReqs == {1, 2}
AuthReqs == AuthSeqReqs \cup AuthRaceReqs

-----------------------------------------------------------------------------
(* Users, tokens, responses *)

NoUser == [_id |-> -1]
NoToken == [userId |-> -1, email |-> "", iat |-> -1]
NoProfile == [id |-> -1]

\* a string that is no token signed with the secret
Garbage == [userId |-> 0, email |-> "forged", iat |-> 0]

\* a token signed for a user whose document is no longer stored
OrphanToken == [userId |-> 0, email |-> "gone@x.com", iat |-> 0]

\* the email as it is compared when the case is kept
keepCase(email) == email

\* email.toLowerCase()
toLowerCase(email) == IF email = "A@X.com" THEN "a@x.com" ELSE email

\* bcrypt.hash(password, 12)
bcryptHash(password) == <<"bcrypt", password>>

\* a comparison that accepts every password
bcryptCompareAny(password, hash) == TRUE

\* bcrypt.compare(password, hash)
bcryptCompare(password, hash) == hash = <<"bcrypt", password>>

\* the picture a google body carries with an external id
pictureOf(googleId) == <<"picture", googleId>>

\* User.findOne({ email }): the stored user of that email, NoUser when none
findOneByEmail(email) ==
    IF \E u \in users : u.email = email
    THEN CHOOSE u \in users : u.email = email
    ELSE NoUser

\* User.findById(id)
findById(id) ==
    IF \E u \in users : u._id = id
    THEN CHOOSE u \in users : u._id = id
    ELSE NoUser

\* userSchema.methods.getPublicProfile (name and createdAt are not followed)
getPublicProfile(user) ==
    [id |-> user._id, email |-> user.email, role |-> user.role,
     picture |-> user.picture]

\* generateToken: jwt.sign({ userId, email }, secret, { expiresIn: '7d' })
generateToken(userId, email) == [userId |-> userId, email |-> email, iat |-> now]

\* jwt.verify when the expiry is not looked at
jwtVerifyNoExpiry(token) == token \in tokens

\* jwt.verify when only a token issued at this moment passes
jwtVerifyLatestOnly(token) == token \in tokens /\ token.iat = now

\* jwt.verify(token, secret) does not throw: signed with the secret, not expired
jwtVerify(token) == token \in tokens /\ now < token.iat + ExpiresInDays

NoHeader == [prefix |-> "", value |-> NoToken]

\* the Authorization headers a request can carry
Headers ==
    {NoHeader} \cup
    {[prefix |-> px, value |-> t] : px \in {"Bearer ", ""}, t \in tokens \cup {Garbage}}

\* authHeader.replace('Bearer ', '')
replaceBearer(header) == header.value

\* new User({...}) with the schema's defaults; _id is given at the insert
newUser(email, password, role, googleId, picture) ==
    [_id |-> 0, email |-> email, password |-> password, role |-> role,
     googleId |-> googleId, picture |-> picture, isActive |-> TRUE,
     lastLogin |-> -1]

\* schema validation of a user: role is one of the enum
userValidate(user) == user.role \in {"user", "admin"}

\* the insert check of a collection whose email index is not unique
emailNotIndexed(email) == TRUE

\* the unique index on email admits the insert
emailUnique(email) == \A u \in users : u.email # email

\* the error save() of a new user throws, "" when it succeeds
insertError(user) ==
    IF ~userValidate(user) THEN "ValidationError"
    ELSE IF ~emailUnique(user.email) THEN "E11000 duplicate key"
    ELSE ""

\* the new user as stored: userSchema.pre('save') stamps lastLogin (isNew)
insertedUser(user) ==
    [user EXCEPT !._id = Cardinality(users) + 1, !.lastLogin = now]

\* a response; stages lists the middlewares and handler the request reached
response(route, status, message, field, token, user, stages) ==
    [route |-> route, status |-> status, message |-> message, field |-> field,
     token |-> token, user |-> user, stages |-> stages]

\* a request that awaits nothing; modified lists the paths assigned on a
\* loaded user
idleAuthReq == [pc |-> "idle", route |-> "", user |-> NoUser, modified |-> {}]

\* the error save() of the user throws, "" when it succeeds
saveUserError(user) ==
    IF ~userValidate(user) THEN "ValidationError"
    ELSE IF user._id = 0 THEN insertError(user)
    ELSE ""

\* the in-memory user after a successful save()
savedUser(user, modified) ==
    IF user._id = 0 THEN insertedUser(user)
    ELSE IF "lastLogin" \in modified THEN [user EXCEPT !.lastLogin = now]
    ELSE user

\* the stored users after a successful save(): an insert, or an update of
\* the modified paths of the document of that _id
usersAfterSave(user, modified) ==
    IF user._id = 0 THEN users \cup {insertedUser(user)}
    ELSE {IF u._id # user._id THEN u
          ELSE [u EXCEPT
                  !.googleId = IF "googleId" \in modified THEN user.googleId ELSE @,
                  !.picture = IF "picture" \in modified THEN user.picture ELSE @,
                  !.lastLogin = IF "lastLogin" \in modified THEN now ELSE @]
          : u \in users}

\* the model follows an insert only while fewer than MaxUsers are stored
insertFollowed(user) ==
    (user._id = 0 /\ saveUserError(user) = "") => Cardinality(users) < MaxUsers

AuthInit ==
    /\ users = {}
    /\ tokens = {OrphanToken}
    /\ now = 0
    /\ authReq = [r \in AuthReqs |-> idleAuthReq]
    /\ resp = response("", 0, "", "", NoToken, NoProfile, <<>>)

-----------------------------------------------------------------------------
(* Auth routes *)

\* role || 'user'
roleOrUser(role) == IF role = "" THEN "user" ELSE role

\* the field /register cites when email or password is missing
requiredField(email) == IF email = "" THEN "email" ELSE "password"

\* the length check when it admits one character less
passwordTooShortOffByOne(password) == Len(password) < 5

\* password.length < 6
passwordTooShort(password) == Len(password) < 6

\* POST /register up to the await of user.save()
registerFind(r, email, password, role) ==
    /\ UNCHANGED <<cartVars, prodVars>>
    /\ authReq[r].pc = "idle"
    /\ UNCHANGED <<users, tokens, now>>
    /\ IF email = "" \/ password = ""
       THEN /\ resp' = response("register", 400, "Email and password are required",
                                requiredField(email), NoToken, NoProfile, <<>>)
            /\ UNCHANGED authReq
       ELSE IF passwordTooShort(password)
       THEN /\ resp' = response("register", 400,
                                "Password must be at least 6 characters long",
                                "password", NoToken, NoProfile, <<>>)
            /\ UNCHANGED authReq
       ELSE IF findOneByEmail(toLowerCase(email)) # NoUser
       THEN /\ resp' = response("register", 400, "User already exists with this email",
                                "email", NoToken, NoProfile, <<>>)
            /\ UNCHANGED authReq
       ELSE /\ authReq' = [authReq EXCEPT ![r] =
                [pc |-> "saving", route |-> "register",
                 user |-> newUser(toLowerCase(email), bcryptHash(password),
                                  roleOrUser(role), "", ""),
                 modified |-> {}]]
            /\ UNCHANGED resp

\* POST /register from await user.save() on; a rejected save is caught: 500
registerSave(r) ==
    /\ UNCHANGED <<cartVars, prodVars>>
    /\ authReq[r].pc = "saving"
    /\ authReq[r].route = "register"
    /\ insertFollowed(authReq[r].user)
    /\ authReq' = [authReq EXCEPT ![r] = idleAuthReq]
    /\ UNCHANGED now
    /\ IF saveUserError(authReq[r].user) = ""
       THEN LET user == savedUser(authReq[r].user, {})
                token == generateToken(user._id, user.email)
            IN /\ users' = usersAfterSave(authReq[r].user, {})
               /\ tokens' = tokens \cup {token}
               /\ resp' = response("register", 201, "User created successfully", "",
                                   token, getPublicProfile(user), <<>>)
       ELSE /\ resp' = response("register", 500, "Server error during registration",
                                "", NoToken, NoProfile, <<>>)
            /\ UNCHANGED <<users, tokens>>

\* the stored users after save() of a loaded user whose lastLogin was assigned
usersAfterLogin(user) ==
    {IF u._id = user._id THEN [u EXCEPT !.lastLogin = now] ELSE u : u \in users}

\* the active check when it lets every account through
isActiveUnchecked(user) == TRUE

\* user.isActive, as POST /login reads it
isActive(user) == user.isActive

\* POST /login
login(email, password) ==
    /\ UNCHANGED <<cartVars, prodVars>>
    /\ UNCHANGED <<now, authReq>>
    /\ LET user == findOneByEmail(toLowerCase(email))
       IN IF email = "" \/ password = ""
          THEN /\ resp' = response("login", 400, "Email and password are required",
                                   requiredField(email), NoToken, NoProfile, <<>>)
               /\ UNCHANGED <<users, tokens>>
          ELSE IF user = NoUser
          THEN /\ resp' = response("login", 400, "Invalid email or password", "email",
                                   NoToken, NoProfile, <<>>)
               /\ UNCHANGED <<users, tokens>>
          ELSE IF ~isActive(user)
          THEN /\ resp' = response("login", 403,
                                   "Account is deactivated. Please contact support.",
                                   "account", NoToken, NoProfile, <<>>)
               /\ UNCHANGED <<users, tokens>>
          ELSE IF ~bcryptCompare(password, user.password)
          THEN /\ resp' = response("login", 400, "Invalid email or password",
                                   "password", NoToken, NoProfile, <<>>)
               /\ UNCHANGED <<users, tokens>>
          ELSE LET token == generateToken(user._id, user.email)
               IN /\ users' = usersAfterLogin(user)
                  /\ tokens' = tokens \cup {token}
                  /\ resp' = response("login", 200, "Login successful", "", token,
                                      getPublicProfile(user), <<>>)

\* GET /me
me(header) ==
    /\ UNCHANGED <<cartVars, prodVars>>
    /\ UNCHANGED <<users, tokens, now, authReq>>
    /\ LET token == replaceBearer(header)
           user == findById(token.userId)
       IN resp' =
            IF token = NoToken
            THEN response("me", 401, "No token provided", "", NoToken, NoProfile, <<>>)
            ELSE IF ~jwtVerify(token)
            THEN response("me", 401, "Invalid token", "", NoToken, NoProfile, <<>>)
            ELSE IF user = NoUser
            THEN response("me", 404, "User not found", "", NoToken, NoProfile, <<>>)
            ELSE response("me", 200, "", "", NoToken, getPublicProfile(user), <<>>)

\* POST /refresh
refresh(header) ==
    /\ UNCHANGED <<cartVars, prodVars>>
    /\ UNCHANGED <<users, now, authReq>>
    /\ LET token == replaceBearer(header)
           user == findById(token.userId)
       IN IF token = NoToken
          THEN /\ resp' = response("refresh", 401, "No token provided", "", NoToken,
                                   NoProfile, <<>>)
               /\ UNCHANGED tokens
          ELSE IF ~jwtVerify(token)
          THEN /\ resp' = response("refresh", 401, "Invalid token", "", NoToken,
                                   NoProfile, <<>>)
               /\ UNCHANGED tokens
          ELSE IF user = NoUser
          THEN /\ resp' = response("refresh", 404, "User not found", "", NoToken,
                                   NoProfile, <<>>)
               /\ UNCHANGED tokens
          ELSE LET newToken == generateToken(user._id, user.email)
               IN /\ tokens' = tokens \cup {newToken}
                  /\ resp' = response("refresh", 200, "Token refreshed successfully",
                                      "", newToken, getPublicProfile(user), <<>>)

\* the outcome of the auth middleware: the status it answers with (0 when
\* it calls next()) and the user it attaches to the request
authMiddleware(header) ==
    LET token == replaceBearer(header)
        user == findById(token.userId)
    IN IF header = NoHeader
       THEN [status |-> 401, message |-> "No authorization header", user |-> NoUser]
       ELSE IF ~jwtVerify(token)
       THEN [status |-> 401, message |-> "Authentication failed", user |-> NoUser]
       ELSE IF user = NoUser
       THEN [status |-> 401, message |-> "User not found", user |-> NoUser]
       ELSE [status |-> 0, message |-> "", user |-> user]

\* the admin middleware when it looks at the user only
adminAnyUser(reqUser) == reqUser # NoUser

\* the admin middleware calls next(): req.user && req.user.role === 'admin'
admin(reqUser) == reqUser # NoUser /\ reqUser.role = "admin"

\* GET /stats behind [auth, admin] (the other dashboard routes are alike)
dashboardStats(header) ==
    /\ UNCHANGED <<cartVars, prodVars>>
    /\ UNCHANGED <<users, tokens, now, authReq>>
    /\ LET a == authMiddleware(header)
       IN resp' =
            IF a.status # 0
            THEN response("stats", a.status, a.message, "", NoToken, NoProfile,
                          <<"auth">>)
            ELSE IF ~admin(a.user)
            THEN response("stats", 403, "Access denied. Admin privileges required.",
                          "", NoToken, NoProfile, <<"auth", "admin">>)
            ELSE response("stats", 200, "", "", NoToken, NoProfile,
                          <<"auth", "admin", "handler">>)

\* the field the google routes need is missing
googleMissing(email, googleId) == email = "" \/ googleId = ""

\* the link check when every user counts as unlinked
googleIdNeverSet(user) == FALSE

\* user.googleId is set (the routes link when !user.googleId)
googleIdSet(user) == user.googleId # ""

\* POST /google-register up to the await of user.save(), or to the response
\* when nothing is saved
googleRegisterFind(r, email, googleId) ==
    /\ UNCHANGED <<cartVars, prodVars>>
    /\ authReq[r].pc = "idle"
    /\ UNCHANGED <<users, now>>
    /\ LET user == findOneByEmail(toLowerCase(email))
       IN IF googleMissing(email, googleId)
          THEN /\ resp' = response("google-register", 400,
                                   "Email and Google ID are required", "", NoToken,
                                   NoProfile, <<>>)
               /\ UNCHANGED <<authReq, tokens>>
          ELSE IF user # NoUser /\ googleIdSet(user)
          THEN LET token == generateToken(user._id, user.email)
               IN /\ tokens' = tokens \cup {token}
                  /\ resp' = response("google-register", 200, "Login successful", "",
                                      token, getPublicProfile(user), <<>>)
                  /\ UNCHANGED authReq
          ELSE IF user # NoUser
          THEN /\ authReq' = [authReq EXCEPT ![r] =
                    [pc |-> "saving", route |-> "google-register",
                     user |-> [user EXCEPT !.googleId = googleId,
                                           !.picture = pictureOf(googleId)],
                     modified |-> {"googleId", "picture"}]]
               /\ UNCHANGED <<resp, tokens>>
          ELSE /\ authReq' = [authReq EXCEPT ![r] =
                    [pc |-> "saving", route |-> "google-register",
                     user |-> newUser(toLowerCase(email),
                                      bcryptHash(<<googleId, now>>), "user",
                                      googleId, pictureOf(googleId)),
                     modified |-> {}]]
               /\ UNCHANGED <<resp, tokens>>

\* POST /google-register from await user.save() on
googleRegisterSave(r) ==
    /\ UNCHANGED <<cartVars, prodVars>>
    /\ authReq[r].pc = "saving"
    /\ authReq[r].route = "google-register"
    /\ insertFollowed(authReq[r].user)
    /\ authReq' = [authReq EXCEPT ![r] = idleAuthReq]
    /\ UNCHANGED now
    /\ IF saveUserError(authReq[r].user) = ""
       THEN LET user == savedUser(authReq[r].user, authReq[r].modified)
                token == generateToken(user._id, user.email)
            IN /\ users' = usersAfterSave(authReq[r].user, authReq[r].modified)
               /\ tokens' = tokens \cup {token}
               /\ resp' = IF authReq[r].user._id = 0
                          THEN response("google-register", 201,
                                        "Google signup successful", "", token,
                                        getPublicProfile(user), <<>>)
                          ELSE response("google-register", 200, "Login successful",
                                        "", token, getPublicProfile(user), <<>>)
       ELSE /\ resp' = response("google-register", 500, "Server error", "", NoToken,
                                NoProfile, <<>>)
            /\ UNCHANGED <<users, tokens>>

\* POST /google-login up to the await of user.save()
googleLoginFind(r, email, googleId) ==
    /\ UNCHANGED <<cartVars, prodVars>>
    /\ authReq[r].pc = "idle"
    /\ UNCHANGED <<users, tokens, now>>
    /\ LET user == findOneByEmail(toLowerCase(email))
       IN IF googleMissing(email, googleId)
          THEN /\ resp' = response("google-login", 400,
                                   "Email and Google ID are required", "", NoToken,
                                   NoProfile, <<>>)
               /\ UNCHANGED authReq
          ELSE IF user = NoUser
          THEN /\ authReq' = [authReq EXCEPT ![r] =
                    [pc |-> "saving", route |-> "google-login",
                     user |-> newUser(toLowerCase(email),
                                      bcryptHash(<<googleId, now>>), "user",
                                      googleId, pictureOf(googleId)),
                     modified |-> {}]]
               /\ UNCHANGED resp
          ELSE IF ~googleIdSet(user)
          THEN /\ authReq' = [authReq EXCEPT ![r] =
                    [pc |-> "saving", route |-> "google-login",
                     user |-> [user EXCEPT !.googleId = googleId,
                                           !.picture = pictureOf(googleId)],
                     modified |-> {"googleId", "picture", "lastLogin"}]]
               /\ UNCHANGED resp
          ELSE /\ authReq' = [authReq EXCEPT ![r] =
                    [pc |-> "saving", route |-> "google-login", user |-> user,
                     modified |-> {"lastLogin"}]]
               /\ UNCHANGED resp

\* POST /google-login from await user.save() on: the active flag is looked
\* at after the save
googleLoginSave(r) ==
    /\ UNCHANGED <<cartVars, prodVars>>
    /\ authReq[r].pc = "saving"
    /\ authReq[r].route = "google-login"
    /\ insertFollowed(authReq[r].user)
    /\ authReq' = [authReq EXCEPT ![r] = idleAuthReq]
    /\ UNCHANGED now
    /\ IF saveUserError(authReq[r].user) # ""
       THEN /\ resp' = response("google-login", 500, "Server error", "", NoToken,
                                NoProfile, <<>>)
            /\ UNCHANGED <<users, tokens>>
       ELSE LET user == savedUser(authReq[r].user, authReq[r].modified)
                token == generateToken(user._id, user.email)
            IN /\ users' = usersAfterSave(authReq[r].user, authReq[r].modified)
               /\ IF ~user.isActive
                  THEN /\ resp' = response("google-login", 400,
                                           "Account is deactivated", "", NoToken,
                                           NoProfile, <<>>)
                       /\ UNCHANGED tokens
                  ELSE /\ tokens' = tokens \cup {token}
                       /\ resp' = response("google-login", 200,
                                           "Google login successful", "", token,
                                           getPublicProfile(user), <<>>)

\* some days pass
tick(days) ==
    /\ UNCHANGED <<cartVars, prodVars>>
    /\ now < MaxNow
    /\ now' = now + days
    /\ UNCHANGED <<users, tokens, authReq, resp>>

\* an admin actor changes the active flag of a stored user
setActive(id, active) ==
    /\ UNCHANGED <<cartVars, prodVars>>
    /\ \E u \in users : u._id = id /\ u.isActive # active
    /\ users' = {IF u._id = id THEN [u EXCEPT !.isActive = active] ELSE u : u \in users}
    /\ UNCHANGED <<tokens, now, authReq, resp>>

-----------------------------------------------------------------------------
(* Specifications *)

Init == CartInit /\ ProdInit /\ AuthInit

\* requests of one user, one after the other, calling the cart's methods
CartNext ==
    \/ \E r \in SeqReqs, u \in SeqUsers : getOrCreateCartFind(r, u)
    \/ \E r \in SeqReqs : getOrCreateCartCreate(r)
    \/ \E r \in SeqReqs : cartRequestEnd(r)
    \/ \E r \in SeqReqs, p \in ProductIds, q \in QtyArgs, price \in Prices :
          addItem(r, p, q, price)
    \/ \E r \in SeqReqs, p \in ProductIds, q \in QtyUpdates :
          updateItemQuantity(r, p, q)
    \/ \E r \in SeqReqs, p \in ProductIds : removeItem(r, p)
    \/ \E r \in SeqReqs : clearCart(r)
    \/ \E r \in SeqReqs, c \in CouponCodes, d \in DiscountArgs : applyCoupon(r, c, d)
    \/ \E r \in SeqReqs : removeCoupon(r)
    \/ \E r \in SeqReqs, w \in CallerSets : callerSet(r, w)

SpecCart == Init /\ [][CartNext]_vars

\* concurrent first accesses: getOrCreateCart calls of all users interleave
CartRaceNext ==
    \/ \E r \in RaceReqs, u \in CartUsers : getOrCreateCartFind(r, u)
    \/ \E r \in RaceReqs : getOrCreateCartCreate(r)
    \/ \E r \in RaceReqs : cartRequestEnd(r)

SpecCartRace == Init /\ [][CartRaceNext]_vars

\* concurrent requests on one user's cart: each loads the cart and calls
\* addItem, in any interleaving
CartAddRaceNext ==
    \/ \E r \in AddRaceReqs, u \in SeqUsers : getOrCreateCartFind(r, u)
    \/ \E r \in AddRaceReqs : getOrCreateCartCreate(r)
    \/ \E r \in AddRaceReqs : cartRequestEnd(r)
    \/ \E r \in AddRaceReqs, p \in ProductIds, q \in AddRaceQtyArgs,
          price \in AddRacePrices :
          addItem(r, p, q, price)

SpecCartAddRace == Init /\ [][CartAddRaceNext]_vars

\* review requests on the product, one after the other
ProductNext ==
    \/ \E r \in ProdSeqReqs : productFind(r)
    \/ \E r \in ProdSeqReqs : productRequestEnd(r)
    \/ \E r \in ProdSeqReqs, w \in ProductCallerSets : productCallerSet(r, w)
    \/ \E r \in ProdSeqReqs, u \in ReviewUsers, rating \in RatingArgs,
          c \in CommentArgs : addReview(r, u, rating, c)

SpecProduct == Init /\ [][ProductNext]_vars

\* concurrent requests on the product: each loads it and calls addReview, in
\* any interleaving
ReviewRaceNext ==
    \/ \E r \in ReviewRaceReqs : productFind(r)
    \/ \E r \in ReviewRaceReqs : productRequestEnd(r)
    \/ \E r \in ReviewRaceReqs, u \in ReviewRaceUsers, rating \in ReviewRaceRatings :
          addReview(r, u, rating, <<>>)

SpecReviewRace == Init /\ [][ReviewRaceNext]_vars

\* password registration, login and the token routes, one request at a time,
\* while weeks pass and an admin actor switches accounts off and on
AuthNext ==
    \/ \E r \in AuthSeqReqs, e \in Emails, p \in RegisterPasswords, role \in RoleArgs :
          registerFind(r, e, p, role)
    \/ \E r \in AuthSeqReqs : registerSave(r)
    \/ \E e \in Emails, p \in LoginPasswords : login(e, p)
    \/ \E h \in Headers : me(h)
    \/ \E h \in Headers : refresh(h)
    \/ \E h \in Headers : dashboardStats(h)
    \/ tick(ExpiresInDays)
    \/ \E id \in 1..MaxUsers, active \in BOOLEAN : setActive(id, active)

SpecAuth == Init /\ [][AuthNext]_vars

\* the routes that create users, interleaved
AuthRaceNext ==
    \/ \E r \in AuthRaceReqs, e \in Emails, p \in RegisterPasswords, role \in RoleArgs :
          registerFind(r, e, p, role)
    \/ \E r \in AuthRaceReqs : registerSave(r)
    \/ \E r \in AuthRaceReqs, e \in Emails, g \in GoogleIds : googleRegisterFind(r, e, g)
    \/ \E r \in AuthRaceReqs : googleRegisterSave(r)
    \/ \E r \in AuthRaceReqs, e \in Emails, g \in GoogleIds : googleLoginFind(r, e, g)
    \/ \E r \in AuthRaceReqs : googleLoginSave(r)

SpecAuthRace == Init /\ [][AuthRaceNext]_vars

\* the google routes, interleaved, on accounts that a password registration
\* or a google request created, while an admin actor switches accounts off
\* and on
GoogleNext ==
    \/ \E r \in AuthSeqReqs, e \in LinkEmails : registerFind(r, e, "secret1", "")
    \/ \E r \in AuthSeqReqs : registerSave(r)
    \/ \E r \in AuthRaceReqs, e \in LinkEmails, g \in LinkGoogleIds :
          googleRegisterFind(r, e, g)
    \/ \E r \in AuthRaceReqs : googleRegisterSave(r)
    \/ \E r \in AuthRaceReqs, e \in LinkEmails, g \in LinkGoogleIds :
          googleLoginFind(r, e, g)
    \/ \E r \in AuthRaceReqs : googleLoginSave(r)
    \/ \E id \in 1..MaxUsers, active \in BOOLEAN : setActive(id, active)

SpecGoogle == Init /\ [][GoogleNext]_vars

\* one account, its tokens presented to /me, /refresh and the auth
\* middleware while days pass and an admin actor switches it off and on
RefreshNext ==
    \/ \E r \in AuthSeqReqs : registerFind(r, "a@x.com", "secret1", "")
    \/ \E r \in AuthSeqReqs : registerSave(r)
    \/ login("A@X.com", "secret1")
    \/ \E h \in Headers : me(h)
    \/ \E h \in Headers : refresh(h)
    \/ \E h \in Headers : dashboardStats(h)
    \/ tick(TickDays)
    \/ \E id \in 1..MaxUsers, active \in BOOLEAN : setActive(id, active)

SpecRefresh == Init /\ [][RefreshNext]_vars

\* the routes that issue tokens, on one account that an admin actor
\* switches off and on
InactiveNext ==
    \/ \E r \in AuthSeqReqs : registerFind(r, "a@x.com", "secret1", "")
    \/ \E r \in AuthSeqReqs : registerSave(r)
    \/ \E p \in LoginPasswords : login("a@x.com", p)
    \/ \E r \in AuthSeqReqs, g \in GoogleIds : googleRegisterFind(r, "a@x.com", g)
    \/ \E r \in AuthSeqReqs : googleRegisterSave(r)
    \/ \E r \in AuthSeqReqs, g \in GoogleIds : googleLoginFind(r, "a@x.com", g)
    \/ \E r \in AuthSeqReqs : googleLoginSave(r)
    \/ \E h \in Headers : refresh(h)
    \/ tick(TickDays)
    \/ \E id \in 1..MaxUsers, active \in BOOLEAN : setActive(id, active)

SpecInactive == Init /\ [][InactiveNext]_vars

-----------------------------------------------------------------------------
(* Properties of the cart model *)

RECURSIVE sumPriceTimesQuantity(_)
sumPriceTimesQuantity(items) ==
    IF items = <<>> THEN 0
    ELSE Head(items).price * Head(items).quantity + sumPriceTimesQuantity(Tail(items))

RECURSIVE sumOfQuantities(_)
sumOfQuantities(items) ==
    IF items = <<>> THEN 0
    ELSE Head(items).quantity + sumOfQuantities(Tail(items))

\* C1: every stored cart has totalPrice = price * quantity on every item,
\* subtotal = the sum of the line totals, totalItems = the sum of the
\* quantities and total = max(0, subtotal + tax + shipping - discount),
\* whatever the caller had assigned to these fields before the save.
C1_StoredTotals ==
    \A c \in 1..Len(carts) :
        LET cart == carts[c]
            sum == cart.subtotal + cart.tax + cart.shipping - cart.discount
        IN /\ \A i \in 1..Len(cart.items) :
                 cart.items[i].totalPrice = cart.items[i].price * cart.items[i].quantity
           /\ cart.subtotal = sumPriceTimesQuantity(cart.items)
           /\ cart.totalItems = sumOfQuantities(cart.items)
           /\ cart.total >= 0
           /\ cart.total >= sum
           /\ cart.total \in {0, sum}

\* C1 witness: the stored cart of the scenario (one item of price 10 and
\* quantity 3, tax 2, shipping 5, discount 40: subtotal 30, total 0).
C1_Witness ==
    \E c \in 1..Len(carts) :
        /\ Len(carts[c].items) = 1
        /\ carts[c].items[1].price = 10
        /\ carts[c].items[1].quantity = 3
        /\ carts[c].tax = 2
        /\ carts[c].shipping = 5
        /\ carts[c].discount = 40
        /\ carts[c].subtotal = 30
        /\ carts[c].total = 0

\* the document of request r holds an item whose product is productId
holdsItemFor(r, productId) ==
    \E i \in 1..Len(cartReq[r].doc.items) :
        cartReq[r].doc.items[i].productId = productId

\* C5 (as claimed): updateItemQuantity(p, q) on a schema-valid cart that holds
\* an item for p persists the cart, without an item for p when q <= 0 and
\* with that item's quantity set to q otherwise; on a cart that holds no item
\* for p it throws 'Item not found in cart' and leaves the stored carts alone.
C5_UpdateItemQuantity ==
    [][\A r \in SeqReqs, p \in ProductIds, q \in QtyUpdates :
        (updateItemQuantity(r, p, q) /\ cartValidate(cartReq[r].doc)) =>
            IF holdsItemFor(r, p)
            THEN /\ cartErr' = ""
                 /\ LET stored == carts'[cartReq[r].doc._id].items
                        before == cartReq[r].doc.items
                    IN IF q <= 0
                       THEN Len(stored) = Len(before) - 1
                       ELSE \E i \in 1..Len(stored) :
                                stored[i].productId = p /\ stored[i].quantity = q
            ELSE /\ cartErr' = "Item not found in cart"
                 /\ carts' = carts]_vars

\* the totals of a stored cart are those of its items
totalsOfItems(cart) ==
    /\ \A i \in 1..Len(cart.items) :
          cart.items[i].totalPrice = cart.items[i].price * cart.items[i].quantity
    /\ cart.subtotal = sumPriceTimesQuantity(cart.items)
    /\ cart.totalItems = sumOfQuantities(cart.items)
    /\ cart.total = cartTotal(cart.subtotal, cart.tax, cart.shipping, cart.discount)

\* C11 (as claimed): when addItem calls of concurrent requests on one cart
\* each loaded the cart before the other saved, the stored cart after a save
\* is the document of the call that saved last, the other call's item lost,
\* and every stored cart has the totals of its items.
C11_LastWriteWins ==
    /\ [](\A c \in 1..Len(carts) : totalsOfItems(carts[c]))
    /\ [][\A r \in AddRaceReqs, p \in ProductIds, q \in AddRaceQtyArgs,
              price \in AddRacePrices :
            (addItem(r, p, q, price) /\ cartErr' = "") =>
                carts'[cartReq[r].doc._id] = depopulate(cartReq'[r].doc)]_vars

\* C10: a getOrCreateCart call that found no cart and reaches its save when
\* a cart of that user is stored fails with the duplicate-key error, returns
\* no cart and stores nothing; no two stored carts have the same userId.
C10_CreateRace ==
    /\ [](\A i, j \in 1..Len(carts) : carts[i].userId = carts[j].userId => i = j)
    /\ [][\A r \in RaceReqs :
            (getOrCreateCartCreate(r) /\ findOneCart(cartReq[r].userId) # NoCart) =>
                /\ cartErr' = "E11000 duplicate key"
                /\ cartReq'[r] = idleReq
                /\ carts' = carts]_vars

\* C10 witness: two calls for one user both found no cart; one created the
\* cart and holds it, the other's save was just rejected.
C10_Witness ==
    /\ cartErr = "E11000 duplicate key"
    /\ \E r \in RaceReqs :
        /\ cartReq[r].pc = "loaded"
        /\ cartReq[r].doc.items = <<>>
        /\ Cardinality({i \in 1..Len(carts) : carts[i].userId = cartReq[r].userId}) = 1
        /\ \E r2 \in RaceReqs \ {r} : cartReq[r2].pc = "creating"
                                         /\ cartReq[r2].userId = cartReq[r].userId

-----------------------------------------------------------------------------
(* Properties of the product model *)

RECURSIVE sumOfRatings(_)
sumOfRatings(reviews) ==
    IF reviews = <<>> THEN 0 ELSE Head(reviews).rating + sumOfRatings(Tail(reviews))

\* C3: the stored product's reviewCount is the number of its reviews and its
\* rating (in tenths) is the tenth nearest to the mean of their ratings,
\* halves upwards, or 0 without reviews, whatever the caller had assigned.
C3_StoredRating ==
    LET n == Len(product.reviews)
        total == sumOfRatings(product.reviews)
    IN /\ product.reviewCount = n
       /\ IF n = 0 THEN product.rating = 0
          ELSE /\ 2 * n * product.rating <= 20 * total + n
               /\ 20 * total + n < 2 * n * product.rating + 2 * n

\* the rating and reviewCount of a stored product are those of its reviews
ratingOfReviews(doc) ==
    LET n == Len(doc.reviews)
        total == sumOfRatings(doc.reviews)
    IN /\ doc.reviewCount = n
       /\ IF n = 0 THEN doc.rating = 0
          ELSE /\ 2 * n * doc.rating <= 20 * total + n
               /\ 20 * total + n < 2 * n * doc.rating + 2 * n

\* the product half of C11 as claimed, under SpecReviewRace: the stored
\* product after a save of addReview is the document of the call that saved
\* last, and its rating and reviewCount are those of its reviews
reviewRaceLastWriteWins ==
    /\ [](ratingOfReviews(product))
    /\ [][\A r \in ReviewRaceReqs, u \in ReviewRaceUsers, rating \in ReviewRaceRatings :
            (addReview(r, u, rating, <<>>) /\ prodLast'.err = "") =>
                product' = prodReq'[r].doc]_vars

\* with a review to replace, the save sends the whole array with the version
\* it loaded: under SpecReviewRace the later of two such saves is rejected
\* and the stored product is the first call's
reviewRaceVersionError ==
    [][\A r \in ReviewRaceReqs, u \in ReviewRaceUsers, rating \in ReviewRaceRatings :
        (addReview(r, u, rating, <<>>) /\ prodReq[r].stale
            /\ \E i \in 1..Len(prodReq[r].doc.reviews) :
                    prodReq[r].doc.reviews[i].user = u) =>
            /\ prodLast'.err = "VersionError"
            /\ product' = product]_vars

\* C3 witness: four stored reviews of ratings 1, 1, 1, 2: the mean 1.25 is
\* stored as 1.3.
C3_Witness ==
    /\ Len(product.reviews) = 4
    /\ sumOfRatings(product.reviews) = 5
    /\ product.rating = 13
    /\ product.reviewCount = 4

\* the reviews of the sequence that are not by userId, in order
reviewsOfOthers(reviews, userId) ==
    SelectSeq(reviews, LAMBDA review : review.user # userId)

\* C4: the stored product holds at most one review per user; a successful
\* addReview(u, rating, comment) leaves exactly one review by u, carrying that
\* rating and comment, and the reviews of the other users as they were.
C4_OneReviewPerUser ==
    /\ [](\A i, j \in 1..Len(product.reviews) :
            product.reviews[i].user = product.reviews[j].user => i = j)
    /\ [][(prodLast'.op = "addReview" /\ prodLast'.err = "") =>
            LET u == prodLast'.userId
                c == prodLast'.commentArg
                mine == {i \in 1..Len(product'.reviews) : product'.reviews[i].user = u}
            IN /\ Cardinality(mine) = 1
               /\ \A i \in mine :
                    /\ product'.reviews[i].rating = prodLast'.rating
                    /\ product'.reviews[i].comment = (IF c = <<>> THEN "" ELSE c[1])
               /\ reviewsOfOthers(product'.reviews, u)
                    = reviewsOfOthers(prodReq[prodLast'.req].doc.reviews, u)]_vars

\* C4 witness: an addReview by a user who had a review replaced it, next to
\* the review of another user.
C4_Witness ==
    /\ prodLast.op = "addReview"
    /\ prodLast.err = ""
    /\ prodLast.removed = 1
    /\ Len(product.reviews) >= 2

-----------------------------------------------------------------------------
(* Properties of the auth model *)

\* the email up to letter case
emailKey(email) == IF email \in {"a@x.com", "A@X.com"} THEN "a" ELSE email

\* the stored users whose email is the given one up to letter case
usersOfEmail(email) == {u \in users : emailKey(u.email) = emailKey(email)}

\* the token is signed with the secret and its seven days are not over
unexpired(token) == token \in tokens /\ now - token.iat < ExpiresInDays

\* C2: a request to a dashboard route reaches the handler exactly when its
\* header carries a token that verifies, of a stored user whose role is
\* 'admin'; without such a token or user it ends in 401 in the auth
\* middleware; with a stored user of another role it ends in 403 in the
\* admin middleware.
C2_AdminOnly ==
    [][(resp' # resp /\ resp'.route = "stats") =>
        \A h \in Headers : dashboardStats(h) =>
            LET holder == {u \in users : u._id = h.value.userId}
                verified == h # NoHeader /\ unexpired(h.value)
                isAdmin == \E u \in holder : u.role = "admin"
            IN /\ ("handler" \in {resp'.stages[i] : i \in 1..Len(resp'.stages)})
                    <=> (verified /\ holder # {} /\ isAdmin)
               /\ (~verified \/ holder = {}) =>
                    (resp'.status = 401 /\ resp'.stages = <<"auth">>)
               /\ (verified /\ holder # {} /\ ~isAdmin) =>
                    (resp'.status = 403 /\ resp'.stages = <<"auth", "admin">>)
               /\ (verified /\ holder # {} /\ isAdmin) => resp'.status = 200]_vars

\* C2 witness: a stored user who is no admin was answered 403 by the admin
\* middleware.
C2_Witness ==
    /\ resp.route = "stats"
    /\ resp.status = 403
    /\ resp.stages = <<"auth", "admin">>
    /\ \E u \in users : u.role = "user"

\* a step of request r through the lookup half of /register: it answers at
\* once or goes on to its save
registerFindStep(r) ==
    /\ authReq[r].pc = "idle"
    /\ \/ authReq' = authReq /\ resp' # resp /\ resp'.route = "register"
       \/ authReq'[r].pc = "saving" /\ authReq'[r].route = "register"

\* a step of request r through the save half of /register
registerSaveStep(r) ==
    /\ authReq[r].pc = "saving"
    /\ authReq[r].route = "register"
    /\ authReq'[r].pc = "idle"

C8_GenericLoginFailure ==
    [][(resp' # resp /\ resp'.route = "login") =>
        \A e \in Emails \ {""}, p \in LoginPasswords \ {""} :
            login(e, p) =>
                /\ usersOfEmail(e) = {} =>
                    /\ resp'.status = 400
                    /\ resp'.message = "Invalid email or password"
                    /\ resp'.field = "email"
                    /\ resp'.token = NoToken
                    /\ users' = users /\ tokens' = tokens
                /\ (\E u \in usersOfEmail(e) : u.isActive /\ u.password # <<"bcrypt", p>>) =>
                    /\ resp'.status = 400
                    /\ resp'.message = "Invalid email or password"
                    /\ resp'.field = "password"
                    /\ resp'.token = NoToken
                    /\ users' = users /\ tokens' = tokens]_vars

\* C8 witness: a login with a wrong password for a stored active user was
\* answered.
C8_Witness ==
    /\ resp.route = "login"
    /\ resp.status = 400
    /\ resp.field = "password"
    /\ resp.message = "Invalid email or password"
    /\ \E u \in users : u.isActive

\* C9 (as claimed): a login with the email, in any letter case, and the
\* password of a registered user is answered 200 with a token of that user's
\* id and email; /me with a token signed for a stored user answers that
\* user's profile, and the auth middleware lets that token pass.
C9_AsClaimed ==
    [][(resp' # resp /\ resp'.route \in {"login", "me", "stats"}) =>
        /\ \A e \in Emails \ {""}, p \in LoginPasswords \ {""} :
            login(e, p) =>
                \A u \in usersOfEmail(e) : u.password = <<"bcrypt", p>> =>
                    /\ resp'.status = 200
                    /\ resp'.token.userId = u._id
                    /\ resp'.token.email = u.email
        /\ \A h \in Headers :
            (h.value \in tokens /\ \E u \in users : u._id = h.value.userId) =>
                /\ me(h) =>
                    /\ resp'.status = 200
                    /\ resp'.user.id = h.value.userId
                    /\ resp'.user.email = h.value.email
                /\ dashboardStats(h) => resp'.status # 401]_vars

\* C9 (amended): a login with the email, in any letter case, and the password
\* of a registered user who is active is answered 200 with a token of that
\* user's id and email; /me with an unexpired token signed for a stored user
\* answers that user's profile, and the auth middleware lets that token pass.
C9_RegisterLoginMe ==
    [][(resp' # resp /\ resp'.route \in {"login", "me", "stats"}) =>
        /\ \A e \in Emails \ {""}, p \in LoginPasswords \ {""} :
            login(e, p) =>
                \A u \in usersOfEmail(e) : (u.password = <<"bcrypt", p>> /\ u.isActive) =>
                    /\ resp'.status = 200
                    /\ resp'.token.userId = u._id
                    /\ resp'.token.email = u.email
                    /\ resp'.token \in tokens'
        /\ \A h \in Headers :
            (unexpired(h.value) /\ \E u \in users : u._id = h.value.userId) =>
                /\ me(h) =>
                    /\ resp'.status = 200
                    /\ resp'.user.id = h.value.userId
                    /\ resp'.user.email = h.value.email
                /\ dashboardStats(h) => resp'.status # 401]_vars

\* C9 witness: /me answered the profile of the second of two stored users,
\* registered in upper case, with a token a login issued for it.
C9_Witness ==
    /\ resp.route = "me"
    /\ resp.status = 200
    /\ resp.user.id = 2
    /\ resp.user.email = "a@x.com"
    /\ Cardinality(users) = 2
    /\ \E u \in users : u._id = 2 /\ u.lastLogin = ExpiresInDays

\* the routes of the external-identity flow
googleRoutes == {"google-register", "google-login"}

\* a step of request r through the save half of a google route
googleSaveStep(r) ==
    /\ authReq[r].pc = "saving"
    /\ authReq[r].route \in googleRoutes
    /\ authReq'[r].pc = "idle"
    /\ (googleRegisterSave(r) \/ googleLoginSave(r))

\* the ids of a set of users
idsOf(us) == {u._id : u \in us}

C13_RefreshKeepsTokens ==
    /\ [][tokens \subseteq tokens']_vars
    /\ [][(resp' # resp /\ resp'.route \in {"refresh", "me", "stats"}) =>
            \A h \in Headers :
                (unexpired(h.value) /\ \E u \in users : u._id = h.value.userId) =>
                    /\ refresh(h) =>
                        /\ resp'.status = 200
                        /\ resp'.token.userId = h.value.userId
                        /\ resp'.token.email = h.value.email
                        /\ resp'.token \in tokens'
                        /\ resp'.user.id = h.value.userId
                        /\ h.value \in tokens'
                        /\ users' = users
                    /\ me(h) =>
                        /\ resp'.status = 200
                        /\ resp'.user.id = h.value.userId
                    /\ dashboardStats(h) => resp'.status # 401]_vars

\* C13 witness: /refresh answered with a token issued now while an older
\* token of that user is unexpired.
C13_Witness ==
    /\ resp.route = "refresh"
    /\ resp.status = 200
    /\ resp.token.iat = now
    /\ \E old \in tokens :
        /\ old.userId = resp.token.userId
        /\ old.iat < resp.token.iat
        /\ unexpired(old)

\* C14: POST /login checks, in this order, that email and password are
\* present (400), that the user exists (400, field email), that the user is
\* active (403, field account) and that the password matches (400, field
\* password); an inactive user gets 403 whatever password is sent, no token
\* and no change of the stored users; users or tokens change, or a token is
\* returned, only when all four checks passed.
C14_LoginOrder ==
    [][(resp' # resp /\ resp'.route = "login") =>
        \A e \in Emails, p \in LoginPasswords :
            login(e, p) =>
                LET found == usersOfEmail(e)
                    present == e # "" /\ p # ""
                IN /\ ~present =>
                        /\ resp'.status = 400
                        /\ resp'.message = "Email and password are required"
                   /\ (present /\ found = {}) =>
                        /\ resp'.status = 400
                        /\ resp'.field = "email"
                   /\ (present /\ \E u \in found : ~u.isActive) =>
                        /\ resp'.status = 403
                        /\ resp'.field = "account"
                        /\ resp'.token = NoToken
                        /\ users' = users
                        /\ tokens' = tokens
                   /\ (present /\ \E u \in found :
                            u.isActive /\ u.password # <<"bcrypt", p>>) =>
                        /\ resp'.status = 400
                        /\ resp'.field = "password"
                   /\ (users' # users \/ tokens' # tokens \/ resp'.token # NoToken) =>
                        /\ present
                        /\ \E u \in found : u.isActive /\ u.password = <<"bcrypt", p>>
                        /\ resp'.status = 200
                        /\ resp'.token \in tokens'
                        /\ \E u \in users' :
                            u._id = resp'.token.userId /\ u.lastLogin = now]_vars

\* C14 witness: an inactive user whose login was answered 403.
C14_Witness ==
    /\ resp.route = "login"
    /\ resp.status = 403
    /\ \E u \in users : ~u.isActive

\* C15 (as claimed): addItem(p, q, price) on a cart that holds an item for p
\* adds q to that item's quantity and sets its price, appending nothing, and
\* appends one item otherwise; every stored cart holds at most one item per
\* product; removeItem(p) on a schema-valid cart without an item for p leaves
\* the stored items as they are and raises no error.
C15_OneItemPerProduct ==
    /\ [](\A c \in 1..Len(carts) :
            \A i, j \in 1..Len(carts[c].items) :
                carts[c].items[i].productId = carts[c].items[j].productId => i = j)
    /\ [][\A r \in SeqReqs, p \in ProductIds, q \in QtyArgs, price \in Prices :
            (addItem(r, p, q, price) /\ cartErr' = "") =>
                LET before == cartReq[r].doc.items
                    stored == carts'[cartReq'[r].doc._id].items
                IN IF holdsItemFor(r, p)
                   THEN /\ Len(stored) = Len(before)
                        /\ \E i \in 1..Len(before) :
                            /\ before[i].productId = p
                            /\ stored[i].quantity = before[i].quantity + qtyOrDefault(q)
                            /\ stored[i].price = price
                   ELSE Len(stored) = Len(before) + 1]_vars
    /\ [][\A r \in SeqReqs, p \in ProductIds :
            (removeItem(r, p) /\ cartValidate(cartReq[r].doc)
                /\ ~holdsItemFor(r, p)) =>
                /\ cartErr' = ""
                /\ carts'[cartReq'[r].doc._id].items
                        = carts[cartReq[r].doc._id].items]_vars

\* C16 (as claimed): no step of register, the google routes, login, /me or
\* /refresh stores a user whose role is 'admin' unless that user was stored
\* with role 'admin' before, so with no role change from outside these routes
\* no request passes the admin middleware.
C16_SelfServiceRoleUser ==
    /\ [][\A u \in users' :
            u.role = "admin" => \E v \in users : v._id = u._id /\ v.role = "admin"]_vars
    /\ [](~(resp.route = "stats" /\ resp.stages = <<"auth", "admin", "handler">>))

\* the messages of a rejection for a deactivated account
deactivatedMessages ==
    {"Account is deactivated", "Account is deactivated. Please contact support."}

\* C17 (as claimed): no step of login, google-register, google-login or
\* /refresh signs or returns a token for a user whose stored active flag is
\* false, and a step that answers that the account is deactivated leaves the
\* stored users as they were.
C17_InactiveNoToken ==
    /\ [][\A u \in users :
            ~u.isActive =>
                /\ \A t \in tokens' \ tokens : t.userId # u._id
                /\ (resp' # resp /\ resp'.token # NoToken) =>
                        resp'.token.userId # u._id]_vars
    /\ [][((resp' # resp \/ authReq' # authReq)
                /\ resp'.message \in deactivatedMessages) => users' = users]_vars

-----------------------------------------------------------------------------
Next == CartNext \/ CartRaceNext \/ CartAddRaceNext \/ ReviewRaceNext \/ ProductNext \/ AuthNext \/ AuthRaceNext \/ GoogleNext \/ RefreshNext
        \/ InactiveNext

Spec == Init /\ [][Next]_vars

====
